---- MODULE Spec2Model ----
(***************************************************************************)
(* Model of get-all-english-words-multi-source:                            *)
(*   trie.py                      TrieNode and TrieNode.insert             *)
(*   compile_all_english_words.py the source loaders and main()            *)
(*   validate_words.py            load_trie, load_words_to_validate,       *)
(*                                is_in_trie and main()                    *)
(* A word is a sequence of characters; a character is a one-symbol string. *)
(***************************************************************************)
EXTENDS Integers, Sequences, FiniteSets, TLC

\* ------------------------------------------------------------------ bounds
\* Longest word inserted into or queried from the trie.
MaxLen == 2
\* Most insert calls in one behaviour of SpecTrie.
MaxInserts == 2
\* Most lines in one input file (a source, the omit file, the validate file).
MaxLines == 2

\* -------------------------------------------------------------- characters
\* The letters of [a-z] that the model draws words from.
Letters == {"a", "b"}
\* An upper-case letter, a letter outside a-z (U+00E9), a digit, a hyphen
\* and a blank: the character classes the code's tests tell apart.
UpperA == "A"
EAcute == "eacute"
Digit1 == "1"
Hyphen == "-"
Blank == " "
Chars == Letters \cup {UpperA, EAcute, Digit1, Hyphen, Blank}

\* Code point order of the characters (sorted() compares code points).
CodePoint(ch) ==
    CASE ch = Blank -> 32
      [] ch = Hyphen -> 45
      [] ch = Digit1 -> 49
      [] ch = UpperA -> 65
      [] ch = "a" -> 97
      [] ch = "b" -> 98
      [] ch = EAcute -> 233

\* str.lower() on one character.
LowerCh(ch) == IF ch = UpperA THEN "a" ELSE ch

\* str.lower()
Lower(w) == [i \in 1..Len(w) |-> LowerCh(w[i])]

\* str.isalpha() on one character: any Unicode letter.
IsAlphaCh(ch) == ch \in Letters \cup {UpperA, EAcute}

\* str.isalpha(): non-empty and every character a Unicode letter.
IsAlpha(w) == Len(w) > 0 /\ \A i \in 1..Len(w) : IsAlphaCh(w[i])

RECURSIVE LStrip(_)
LStrip(w) == IF w # <<>> /\ Head(w) = Blank THEN LStrip(Tail(w)) ELSE w

RECURSIVE RStrip(_)
RStrip(w) ==
    IF w # <<>> /\ w[Len(w)] = Blank THEN RStrip(SubSeq(w, 1, Len(w) - 1)) ELSE w

\* str.strip()
Strip(w) == RStrip(LStrip(w))

\* is_pure_alpha: re.fullmatch(r"[a-z]+", word)
is_pure_alpha(word) == Len(word) > 0 /\ \A i \in 1..Len(word) : word[i] \in Letters

\* All sequences over S of length 0..n.
RECURSIVE SeqsUpTo(_, _)
SeqsUpTo(S, n) ==
    IF n = 0 THEN {<<>>}
    ELSE LET shorter == SeqsUpTo(S, n - 1)
         IN shorter \cup {Append(w, ch) : w \in shorter, ch \in S}

\* ------------------------------------------------------------------- trie
\* The heap of TrieNode objects: node i has children[i], a dict from a
\* character to the number of the child node, and is_word[i].  Node 1 is the
\* root.
EmptyDict == <<>>

\* TrieNode(): a node with no children and is_word False.
TrieNode == [children |-> <<EmptyDict>>, is_word |-> <<FALSE>>]

Root == 1

\* insert with the membership test of line 14 left out: a new node for every
\* letter, whether or not the edge exists.
RECURSIVE InsertFrom_AlwaysNew(_, _, _)
InsertFrom_AlwaysNew(t, node, word) ==
    IF word = <<>>
    THEN [t EXCEPT !.is_word[node] = TRUE]
    ELSE LET new == Len(t.children) + 1
             t2 == [children |->
                        Append([t.children EXCEPT ![node] =
                                    [c \in DOMAIN @ \cup {Head(word)} |->
                                        IF c = Head(word) THEN new ELSE @[c]]],
                               EmptyDict),
                    is_word |-> Append(t.is_word, FALSE)]
         IN InsertFrom_AlwaysNew(t2, new, Tail(word))

\* insert that sets is_word inside the loop: every node on the path is
\* flagged, not only the last one.
RECURSIVE InsertFrom_FlagsPath(_, _, _)
InsertFrom_FlagsPath(t, node, word) ==
    IF word = <<>>
    THEN [t EXCEPT !.is_word[node] = TRUE]
    ELSE LET ch == Head(word)
         IN IF ch \in DOMAIN t.children[node]
            THEN InsertFrom_FlagsPath([t EXCEPT !.is_word[t.children[node][ch]] = TRUE],
                                      t.children[node][ch], Tail(word))
            ELSE LET new == Len(t.children) + 1
                     t2 == [children |->
                                Append([t.children EXCEPT ![node] = (ch :> new) @@ @],
                                       EmptyDict),
                            is_word |-> Append(t.is_word, TRUE)]
                 IN InsertFrom_FlagsPath(t2, new, Tail(word))

\* insert that resets is_word on the nodes it walks through before flagging
\* the last one.
RECURSIVE InsertFrom_ClearsPrefixFlags(_, _, _)
InsertFrom_ClearsPrefixFlags(t, node, word) ==
    IF word = <<>>
    THEN [t EXCEPT !.is_word[node] = TRUE]
    ELSE LET ch == Head(word)
             t1 == [t EXCEPT !.is_word[node] = FALSE]
         IN IF ch \in DOMAIN t1.children[node]
            THEN InsertFrom_ClearsPrefixFlags(t1, t1.children[node][ch], Tail(word))
            ELSE LET new == Len(t1.children) + 1
                     t2 == [children |->
                                Append([t1.children EXCEPT ![node] = (ch :> new) @@ @],
                                       EmptyDict),
                            is_word |-> Append(t1.is_word, FALSE)]
                 IN InsertFrom_ClearsPrefixFlags(t2, new, Tail(word))

\* TrieNode.insert, from the node reached so far, on the rest of the word.
RECURSIVE InsertFrom(_, _, _)
InsertFrom(t, node, word) ==
    IF word = <<>>
    THEN [t EXCEPT !.is_word[node] = TRUE]
    ELSE LET ch == Head(word)
         IN IF ch \in DOMAIN t.children[node]
            THEN InsertFrom(t, t.children[node][ch], Tail(word))
            ELSE LET new == Len(t.children) + 1
                     t2 == [children |->
                                Append([t.children EXCEPT ![node] = (ch :> new) @@ @],
                                       EmptyDict),
                            is_word |-> Append(t.is_word, FALSE)]
                 IN InsertFrom(t2, new, Tail(word))

\* root.insert(word)
insert(t, word) == InsertFrom(t, Root, word)

\* is_in_trie as a prefix test: True as soon as the path exists.
RECURSIVE LookupFrom_PrefixExists(_, _, _)
LookupFrom_PrefixExists(t, node, word) ==
    IF word = <<>>
    THEN TRUE
    ELSE IF Head(word) \notin DOMAIN t.children[node]
         THEN FALSE
         ELSE LookupFrom_PrefixExists(t, t.children[node][Head(word)], Tail(word))

\* is_in_trie, from the node reached so far, on the rest of the word.
RECURSIVE LookupFrom(_, _, _)
LookupFrom(t, node, word) ==
    IF word = <<>>
    THEN t.is_word[node]
    ELSE IF Head(word) \notin DOMAIN t.children[node]
         THEN FALSE
         ELSE LookupFrom(t, t.children[node][Head(word)], Tail(word))

\* is_in_trie(root, word)
is_in_trie(t, word) == LookupFrom(t, Root, word)

\* The words a trie holds: the paths from the root that end on a flagged node.
RECURSIVE WordsFrom(_, _, _)
WordsFrom(t, node, prefix) ==
    (IF t.is_word[node] THEN {prefix} ELSE {})
    \cup UNION {WordsFrom(t, t.children[node][ch], Append(prefix, ch)) :
                    ch \in DOMAIN t.children[node]}

\* No TrieNode has been constructed yet.
NoTrie == [children |-> <<>>, is_word |-> <<>>]

TrieWords(t) == IF t = NoTrie THEN {} ELSE WordsFrom(t, Root, <<>>)

\* root = TrieNode(); for w in total_union: root.insert(w), the set being
\* iterated in the order given.
RECURSIVE InsertAll(_, _)
InsertAll(t, order) ==
    IF order = <<>> THEN t ELSE InsertAll(insert(t, Head(order)), Tail(order))

\* The orders in which a set can be iterated.
Orders(S) ==
    {o \in [1..Cardinality(S) -> S] : \A i, j \in DOMAIN o : i # j => o[i] # o[j]}

\* ------------------------------------------------------------ input files
\* The lines that input files are made of: canonical words, a capitalised
\* word, a hyphenated word, a word padded with a blank, a blank line.
RawLines ==
    {<<"a">>, <<"a", "b">>, <<UpperA, "b">>, <<"a", Hyphen>>, <<Blank, "a">>, <<Blank>>}

\* A file, as the set of its lines.
Files == {f \in SUBSET RawLines : Cardinality(f) <= MaxLines}

\* A loader's result: the word set it returns, or the exception it raises.
Returned(words) == [ok |-> TRUE, words |-> words]
Raised == [ok |-> FALSE, words |-> {}]

\* load_dwyl_words: clone or pull, then keep the stripped lines of
\* words_alpha.txt that are pure a-z (no lower-casing).
load_dwyl_words(fetched, raw) ==
    LET words == {Strip(line) : line \in {l \in raw : is_pure_alpha(Strip(l))}}
    IN IF ~fetched \/ words = {} THEN Raised ELSE Returned(words)

\* load_scowl_words: download and open the tarball, extract and filter
\* english-words.60 into scowl-en_wl_60.txt unless that file is already in
\* the temp directory, then read the file back keeping every non-empty
\* stripped line.
load_scowl_words(fetched, cached, raw) ==
    LET extracted == IF cached THEN raw
                     ELSE {Lower(Strip(line)) :
                               line \in {l \in raw : is_pure_alpha(Lower(Strip(l)))}}
        words == {Strip(line) : line \in {l \in extracted : Strip(l) # <<>>}}
    IN IF ~fetched \/ (~cached /\ extracted = {}) \/ words = {}
       THEN Raised ELSE Returned(words)

\* load_wordnet_words: the lower-cased lemma names that are pure a-z.
load_wordnet_words(available, lemmas) ==
    LET words == {Lower(l) : l \in {x \in lemmas : is_pure_alpha(Lower(x))}}
    IN IF ~available \/ words = {} THEN Raised ELSE Returned(words)

\* load_wordfreq_words: the lower-cased words of the list that are pure a-z.
load_wordfreq_words(available, list) ==
    LET words == {Lower(l) : l \in {x \in list : is_pure_alpha(Lower(x))}}
    IN IF ~available \/ words = {} THEN Raised ELSE Returned(words)

\* load_linux_dict_words: an empty set when /usr/share/dict/words is no
\* file or holds no valid entry; open() raises when the file cannot be read.
load_linux_dict_words(isfile, readable, raw) ==
    LET words == {Lower(Strip(line)) :
                      line \in {l \in raw : is_pure_alpha(Lower(Strip(l)))}}
    IN IF ~isfile THEN Returned({})
       ELSE IF ~readable THEN Raised
       ELSE Returned(words)

\* load_moby_words: an empty set when no file was given; raises when the
\* file is missing or its section yields no word.  raw is the lines of the
\* "1. Standard English Words" section.
load_moby_words(moby_file, isfile, raw) ==
    LET words == {Lower(Strip(line)) :
                      line \in {l \in raw : is_pure_alpha(Lower(Strip(l)))}}
    IN IF ~moby_file THEN Returned({})
       ELSE IF ~isfile \/ words = {} THEN Raised
       ELSE Returned(words)

\* load_omit_words: the lower-cased stripped lines that are pure a-z;
\* sys.exit(1) when the file is not found.
load_omit_words(found, raw) ==
    LET words == {Lower(Strip(line)) :
                      line \in {l \in raw : is_pure_alpha(Lower(Strip(l)))}}
    IN IF ~found THEN Raised ELSE Returned(words)

\* ------------------------------------------------------------ aggregation
\* The sources in the order main() unions them.
SourceNames == <<"dwyl", "scowl", "wordnet", "wordfreq", "linux", "moby">>

\* total_union = set(); for s in [...]: total_union.update(s)
RECURSIVE UnionFrom(_, _, _)
UnionFrom(acc, sets, i) ==
    IF i > Len(SourceNames) THEN acc
    ELSE UnionFrom(acc \cup sets[SourceNames[i]], sets, i + 1)

UnionSources(sets) == UnionFrom({}, sets, 1)

\* The omission step left out.
ApplyOmit_Skipped(total, omit) == total

\* if omit_set: total_union.difference_update(omit_set)
ApplyOmit(total, omit) == IF omit # {} THEN total \ omit ELSE total

\* Lexicographic order on code points, as sorted() orders str.
RECURSIVE LexLess(_, _)
LexLess(u, v) ==
    IF u = <<>> THEN v # <<>>
    ELSE IF v = <<>> THEN FALSE
    ELSE IF Head(u) # Head(v) THEN CodePoint(Head(u)) < CodePoint(Head(v))
    ELSE LexLess(Tail(u), Tail(v))

\* The words written in the set's own iteration order, here greatest first.
RECURSIVE sorted_Unsorted(_)
sorted_Unsorted(S) ==
    IF S = {} THEN <<>>
    ELSE LET greatest == CHOOSE x \in S : \A y \in S \ {x} : LexLess(y, x)
         IN <<greatest>> \o sorted_Unsorted(S \ {greatest})

\* sorted(S)
RECURSIVE sorted(_)
sorted(S) ==
    IF S = {} THEN <<>>
    ELSE LET least == CHOOSE x \in S : \A y \in S \ {x} : LexLess(x, y)
         IN <<least>> \o sorted(S \ {least})

\* ----------------------------------------------------------------- pickle
\* The serialized trie is the stream of pickle opcodes and arguments that
\* pickle.dump writes for a TrieNode: PROTO and the protocol number, then for
\* each node NEWOBJ and its state dict (the "children" dict with one key,
\* child node and SETITEM per entry, then "is_word" with NEWTRUE or NEWFALSE),
\* BUILD, and STOP (the byte ".") at the end.  Memo opcodes are left out.
PROTO == "\\x80"
HIGHEST_PROTOCOL == "5"
STOP == "."
NodeHeader == <<"NEWOBJ", "MARK", "children", "EMPTY_DICT">>

\* The keys of a children dict in insertion order: children are created in
\* the order of their node numbers.
RECURSIVE KeysInOrder(_)
KeysInOrder(dict) ==
    IF DOMAIN dict = {} THEN <<>>
    ELSE LET first == CHOOSE k \in DOMAIN dict :
                          \A other \in DOMAIN dict : dict[k] <= dict[other]
         IN <<first>> \o KeysInOrder([k \in DOMAIN dict \ {first} |-> dict[k]])

\* What the pickler saves for one node and everything below it.
RECURSIVE SaveNode(_, _), SaveItems(_, _, _)
SaveNode(t, node) ==
    NodeHeader
    \o SaveItems(t, node, KeysInOrder(t.children[node]))
    \o <<"is_word", IF t.is_word[node] THEN "NEWTRUE" ELSE "NEWFALSE", "SETITEMS", "BUILD">>

SaveItems(t, node, keys) ==
    IF keys = <<>> THEN <<>>
    ELSE <<Head(keys)>> \o SaveNode(t, t.children[node][Head(keys)]) \o <<"SETITEM">>
         \o SaveItems(t, node, Tail(keys))

\* A pickler that saves every is_word as False.
pickle_dump_FlagsLost(t) ==
    LET stream == <<PROTO, HIGHEST_PROTOCOL>> \o SaveNode(t, Root) \o <<STOP>>
    IN [i \in DOMAIN stream |-> IF stream[i] = "NEWTRUE" THEN "NEWFALSE" ELSE stream[i]]

\* pickle.dump(root, f, protocol=pickle.HIGHEST_PROTOCOL)
pickle_dump(t) == <<PROTO, HIGHEST_PROTOCOL>> \o SaveNode(t, Root) \o <<STOP>>

\* What the unpickler returns, or the exception it raises.
Unpickled(kind, t, rest) == [ok |-> TRUE, kind |-> kind, t |-> t, rest |-> rest]
UnpicklingError == [ok |-> FALSE, kind |-> "", t |-> NoTrie, rest |-> <<>>]

\* The unpickler on one node: it builds the node, then its state.
RECURSIVE LoadNode(_, _), LoadItems(_, _, _)
LoadNode(s, t) ==
    IF Len(s) < Len(NodeHeader) \/ SubSeq(s, 1, Len(NodeHeader)) # NodeHeader
    THEN UnpicklingError
    ELSE LoadItems(SubSeq(s, Len(NodeHeader) + 1, Len(s)),
                   [children |-> Append(t.children, EmptyDict),
                    is_word |-> Append(t.is_word, FALSE)],
                   Len(t.children) + 1)

LoadItems(s, t, node) ==
    IF s = <<>> THEN UnpicklingError
    ELSE IF Head(s) = "is_word"
    THEN IF Len(s) >= 4 /\ s[2] \in {"NEWTRUE", "NEWFALSE"}
               /\ s[3] = "SETITEMS" /\ s[4] = "BUILD"
         THEN Unpickled("TrieNode", [t EXCEPT !.is_word[node] = (s[2] = "NEWTRUE")],
                        SubSeq(s, 5, Len(s)))
         ELSE UnpicklingError
    ELSE IF Head(s) \notin Chars THEN UnpicklingError
    ELSE LET child == LoadNode(Tail(s), t)
         IN IF ~child.ok \/ child.rest = <<>> \/ Head(child.rest) # "SETITEM"
            THEN UnpicklingError
            ELSE LoadItems(Tail(child.rest),
                           [child.t EXCEPT !.children[node] =
                                (Head(s) :> (Len(t.children) + 1)) @@ @],
                           node)

\* pickle.load(f): an optional PROTO opcode with a supported protocol, one
\* object, and the STOP opcode; whatever follows STOP is not read.
pickle_load(stream) ==
    LET body == IF stream # <<>> /\ Head(stream) = PROTO THEN Tail(Tail(stream))
                ELSE stream
        protocol_ok == (stream # <<>> /\ Head(stream) = PROTO)
                           => (Len(stream) >= 2 /\ stream[2] \in {"0", "1", "2", "3", "4", "5"})
        obj == IF body # <<>> /\ Head(body) = "BININT1"
               THEN Unpickled("int", NoTrie, Tail(body))
               ELSE LoadNode(body, NoTrie)
    IN IF ~protocol_ok \/ body = <<>> \/ ~obj.ok THEN UnpicklingError
       ELSE IF obj.rest = <<>> \/ Head(obj.rest) # STOP THEN UnpicklingError
       ELSE obj

\* load_trie: sys.exit(1) when the file is missing, when unpickling raises
\* or when the object has no children or is_word attribute.
load_trie(isfile, stream) ==
    LET obj == pickle_load(stream)
    IN IF ~isfile \/ ~obj.ok \/ obj.kind # "TrieNode"
       THEN [ok |-> FALSE, root |-> NoTrie]
       ELSE [ok |-> TRUE, root |-> obj.t]

\* ---------------------------------------------------------------- state
VARIABLES
    \* the trie under test (SpecTrie) and the trie main() builds (Spec)
    root,
    inserted,        \* SpecTrie: the words insert was called with
    n_inserts,       \* SpecTrie: number of insert calls so far
    query,           \* SpecTrie: the last is_in_trie call, <<word, result>>, or <<>>
    \* compile_all_english_words.main()
    args,            \* which of --tempdir, --moby-file, --omit-file were given
    pc,              \* the statement main() is at
    error,           \* the stage whose exception or sys.exit ended the run, or ""
    remove_tempdir,
    tempdir_present, \* the temporary workspace exists on disk
    omit_set,
    sets,            \* dwyl_set, scowl_set, wordnet_set, wordfreq_set, linux_set, moby_set
    total_union,
    output_written,  \* the word list file has been written
    output_file,     \* its lines
    trie_file,       \* the pickle file's content, <<>> while not written
    warned,          \* the header/trailer warning was printed
    \* validate_words.main()
    vocab,           \* the vocabulary the trie file on disk was built from
    built,           \* the trie the writer built from it
    trie_stream,     \* the content of the file at --trie-file
    v_pc,            \* the statement main() is at
    v_error,         \* the stage whose sys.exit(1) ended the run, or ""
    trie_root,
    validate_file,   \* the lines of the file at --validate-file
    words,
    skipped,         \* the lines a "skipping invalid word" warning was printed for
    next_word,       \* position of the loop over words
    results,
    count_true,
    count_false

trieVars == <<inserted, n_inserts, query>>
compileVars == <<args, pc, error, remove_tempdir, tempdir_present, omit_set, sets,
                 total_union, output_written, output_file, trie_file, warned>>
validateVars == <<vocab, built, trie_stream, v_pc, v_error, trie_root, validate_file,
                  words, skipped, next_word, results, count_true, count_false>>
vars == <<root, trieVars, compileVars, validateVars>>

\* The state of a main() that has not been started.
CompileIdle ==
    /\ args = [tempdir |-> FALSE, moby_file |-> FALSE, omit_file |-> FALSE]
    /\ pc = "idle"
    /\ error = ""
    /\ remove_tempdir = FALSE
    /\ tempdir_present = FALSE
    /\ omit_set = {}
    /\ sets = [n \in {SourceNames[i] : i \in DOMAIN SourceNames} |-> {}]
    /\ total_union = {}
    /\ output_written = FALSE
    /\ output_file = <<>>
    /\ trie_file = <<>>
    /\ warned = FALSE

ValidateIdle ==
    /\ vocab = {}
    /\ built = NoTrie
    /\ trie_stream = <<>>
    /\ v_pc = "idle"
    /\ v_error = ""
    /\ trie_root = NoTrie
    /\ validate_file = <<>>
    /\ words = <<>>
    /\ skipped = <<>>
    /\ next_word = 1
    /\ results = <<>>
    /\ count_true = 0
    /\ count_false = 0

TrieIdle ==
    /\ inserted = {}
    /\ n_inserts = 0
    /\ query = <<>>

\* ------------------------------------------------------ SpecTrie: the trie
\* Canonical words ([a-z]+) up to MaxLen letters.
CanonWords == SeqsUpTo(Letters, MaxLen) \ {<<>>}
\* Arbitrary query strings: letters and a character that labels no edge.
QueryWords == SeqsUpTo(Letters \cup {Hyphen}, MaxLen)

TrieInit ==
    /\ root = TrieNode
    /\ TrieIdle
    /\ CompileIdle
    /\ ValidateIdle

\* One call root.insert(w) with a canonical word.
Insert ==
    \E w \in CanonWords :
        /\ n_inserts < MaxInserts
        /\ root' = insert(root, w)
        /\ inserted' = inserted \cup {w}
        /\ n_inserts' = n_inserts + 1
        /\ query' = <<>>
        /\ UNCHANGED <<compileVars, validateVars>>

\* One call is_in_trie(root, w) with an arbitrary string.
Query ==
    \E w \in QueryWords :
        /\ query' = <<w, is_in_trie(root, w)>>
        /\ UNCHANGED <<root, inserted, n_inserts, compileVars, validateVars>>

TrieNext == Insert \/ Query

SpecTrie == TrieInit /\ [][TrieNext]_vars

\* ------------------------------- Spec: compile_all_english_words.main()
Init ==
    /\ root = NoTrie
    /\ TrieIdle
    /\ ValidateIdle
    /\ args \in [tempdir : BOOLEAN, moby_file : BOOLEAN, omit_file : BOOLEAN]
    /\ pc = "tempdir"
    /\ error = ""
    /\ remove_tempdir = FALSE
    /\ tempdir_present = FALSE
    /\ omit_set = {}
    /\ sets = [n \in {SourceNames[i] : i \in DOMAIN SourceNames} |-> {}]
    /\ total_union = {}
    /\ output_written = FALSE
    /\ output_file = <<>>
    /\ trie_file = <<>>
    /\ warned = FALSE

\* The statement after the loader of a source.
NextStage(stage) ==
    CASE stage = "omit" -> "dwyl"
      [] stage = "dwyl" -> "scowl"
      [] stage = "scowl" -> "wordnet"
      [] stage = "wordnet" -> "wordfreq"
      [] stage = "wordfreq" -> "linux"
      [] stage = "linux" -> "moby"
      [] stage = "moby" -> "union"
      [] OTHER -> "exit"

\* The finally clause: shutil.rmtree(tempdir) if remove_tempdir.
Finally == IF remove_tempdir THEN FALSE ELSE tempdir_present

\* An exception that is reported but does not end the run.
Raise_Continues(stage) ==
    /\ pc' = NextStage(stage)
    /\ error' = stage
    /\ UNCHANGED tempdir_present

\* An exception raised inside the try block: the finally clause runs and the
\* exception ends the run.
Raise(stage) ==
    /\ pc' = "exit"
    /\ error' = stage
    /\ tempdir_present' = Finally

\* A loader inside the try block returned or raised.
Loaded(stage, r) ==
    IF r.ok
    THEN /\ sets' = [sets EXCEPT ![stage] = r.words]
         /\ pc' = NextStage(stage)
         /\ UNCHANGED <<error, tempdir_present>>
    ELSE /\ Raise(stage)
         /\ UNCHANGED sets

\* Lines 389-398: use --tempdir, or make a temporary directory to remove.
DetermineTempdir ==
    /\ pc = "tempdir"
    /\ remove_tempdir' = ~args.tempdir
    /\ tempdir_present' = TRUE
    /\ pc' = "omit"
    /\ UNCHANGED <<root, trieVars, validateVars, args, error, omit_set, sets,
                   total_union, output_written, output_file, trie_file, warned>>

\* Lines 400-404: load the omit file, outside the try block.
LoadOmit ==
    /\ pc = "omit"
    /\ \E found \in BOOLEAN, raw \in Files :
           LET r == load_omit_words(found, raw)
           IN IF ~args.omit_file
              THEN /\ pc' = NextStage("omit")
                   /\ UNCHANGED <<omit_set, error>>
              ELSE IF r.ok
              THEN /\ omit_set' = r.words
                   /\ pc' = NextStage("omit")
                   /\ UNCHANGED error
              ELSE /\ pc' = "exit"
                   /\ error' = "omit"
                   /\ UNCHANGED omit_set
    /\ UNCHANGED <<root, trieVars, validateVars, args, remove_tempdir, tempdir_present,
                   sets, total_union, output_written, output_file, trie_file, warned>>

loaderFrame == <<root, trieVars, validateVars, args, remove_tempdir, omit_set,
                 total_union, output_written, output_file, trie_file, warned>>

LoadDwyl ==
    /\ pc = "dwyl"
    /\ \E fetched \in BOOLEAN, raw \in Files :
           Loaded("dwyl", load_dwyl_words(fetched, raw))
    /\ UNCHANGED loaderFrame

\* An extracted file can only be there already in a directory given with
\* --tempdir.
LoadScowl ==
    /\ pc = "scowl"
    /\ \E fetched \in BOOLEAN, raw \in Files,
          cached \in (IF args.tempdir THEN BOOLEAN ELSE {FALSE}) :
           Loaded("scowl", load_scowl_words(fetched, cached, raw))
    /\ UNCHANGED loaderFrame

LoadWordnet ==
    /\ pc = "wordnet"
    /\ \E available \in BOOLEAN, lemmas \in Files :
           Loaded("wordnet", load_wordnet_words(available, lemmas))
    /\ UNCHANGED loaderFrame

LoadWordfreq ==
    /\ pc = "wordfreq"
    /\ \E available \in BOOLEAN, list \in Files :
           Loaded("wordfreq", load_wordfreq_words(available, list))
    /\ UNCHANGED loaderFrame

LoadLinuxDict ==
    /\ pc = "linux"
    /\ \E isfile \in BOOLEAN, readable \in BOOLEAN, raw \in Files :
           Loaded("linux", load_linux_dict_words(isfile, readable, raw))
    /\ UNCHANGED loaderFrame

LoadMoby ==
    /\ pc = "moby"
    /\ \E isfile \in BOOLEAN, raw \in Files :
           Loaded("moby", load_moby_words(args.moby_file, isfile, raw))
    /\ UNCHANGED loaderFrame

\* Lines 425-451: union the sources, raise if the union is empty, then
\* remove the omit words.
UnionAll ==
    /\ pc = "union"
    /\ LET total == UnionSources(sets)
       IN IF total = {}
          THEN /\ Raise("empty_union")
               /\ UNCHANGED total_union
          ELSE /\ total_union' = ApplyOmit(total, omit_set)
               /\ pc' = "write"
               /\ UNCHANGED <<error, tempdir_present>>
    /\ UNCHANGED <<root, trieVars, validateVars, args, remove_tempdir, omit_set, sets,
                   output_written, output_file, trie_file, warned>>

\* Lines 453-459: write the sorted words, one per line.
WriteOutput ==
    /\ pc = "write"
    /\ output_file' = sorted(total_union)
    /\ output_written' = TRUE
    /\ pc' = "build"
    /\ UNCHANGED <<root, trieVars, validateVars, args, error, remove_tempdir,
                   tempdir_present, omit_set, sets, total_union, trie_file, warned>>

\* Lines 469-473: a fresh root, and every word of total_union inserted in the
\* set's iteration order.
BuildTrie ==
    /\ pc = "build"
    /\ \E order \in Orders(total_union) : root' = InsertAll(TrieNode, order)
    /\ pc' = "pickle"
    /\ UNCHANGED <<trieVars, validateVars, args, error, remove_tempdir, tempdir_present,
                   omit_set, sets, total_union, output_written, output_file, trie_file,
                   warned>>

\* Lines 475-496: pickle the trie, read the first and last byte back and warn
\* if they are not the expected ones; sys.exit(1) if writing raises; then the
\* finally clause.
PickleTrie ==
    /\ pc = "pickle"
    /\ \E written \in BOOLEAN :
           IF written
           THEN LET stream == pickle_dump(root)
                IN /\ trie_file' = stream
                   /\ warned' = (Head(stream) # PROTO \/ stream[Len(stream)] # STOP)
                   /\ UNCHANGED error
           ELSE /\ error' = "pickle"
                /\ UNCHANGED <<trie_file, warned>>
    /\ tempdir_present' = Finally
    /\ pc' = "exit"
    /\ UNCHANGED <<root, trieVars, validateVars, args, remove_tempdir, omit_set, sets,
                   total_union, output_written, output_file>>

Next ==
    \/ DetermineTempdir
    \/ LoadOmit
    \/ LoadDwyl
    \/ LoadScowl
    \/ LoadWordnet
    \/ LoadWordfreq
    \/ LoadLinuxDict
    \/ LoadMoby
    \/ UnionAll
    \/ WriteOutput
    \/ BuildTrie
    \/ PickleTrie

Spec == Init /\ [][Next]_vars

\* -------------------------------------- SpecValidate: validate_words.main()
\* The words of the vocabularies the trie file is built from.
VocabWords == {<<"a">>, <<"a", "b">>, <<"b">>}

\* The lines of the validate file: words, a capitalised word, a word with a
\* letter outside a-z, a word with a digit, a padded word, a blank line.
TokenLines ==
    {<<"a">>, <<"b">>, <<UpperA, "b">>, <<"a", EAcute>>, <<"a", Digit1>>,
     <<Blank, "a">>, <<Blank>>}

\* What the file at --trie-file can hold: the stream the writer wrote, that
\* stream with a byte appended, without its PROTO header, without its STOP
\* byte, with its first byte overwritten, or the pickle of another object.
TrieFiles(stream) ==
    {stream,
     Append(stream, "\\n"),
     Tail(Tail(stream)),
     SubSeq(stream, 1, Len(stream) - 1),
     <<"X">> \o Tail(stream),
     <<PROTO, HIGHEST_PROTOCOL, "BININT1", STOP>>}

\* load_words_to_validate, line by line: the words kept and the lines warned
\* about.
RECURSIVE ReadWords(_, _, _)
ReadWords(lines, kept, warnings) ==
    IF lines = <<>> THEN [words |-> kept, skipped |-> warnings]
    ELSE LET original == Head(lines)
             w == Lower(Strip(original))
         IN IF w = <<>> THEN ReadWords(Tail(lines), kept, warnings)
            ELSE IF ~IsAlpha(w)
            THEN ReadWords(Tail(lines), kept, Append(warnings, original))
            ELSE ReadWords(Tail(lines), Append(kept, w), warnings)

load_words_to_validate(lines) == ReadWords(lines, <<>>, <<>>)

ValidateInit ==
    /\ root = NoTrie
    /\ TrieIdle
    /\ CompileIdle
    /\ vocab \in SUBSET VocabWords
    /\ \E order \in Orders(vocab) : built = InsertAll(TrieNode, order)
    /\ trie_stream \in TrieFiles(pickle_dump(built))
    /\ v_pc = "load_trie"
    /\ v_error = ""
    /\ trie_root = NoTrie
    /\ validate_file = <<>>
    /\ words = <<>>
    /\ skipped = <<>>
    /\ next_word = 1
    /\ results = <<>>
    /\ count_true = 0
    /\ count_false = 0

\* Lines 145-148: load the trie or exit.
LoadTrie ==
    /\ v_pc = "load_trie"
    /\ \E isfile \in BOOLEAN :
           LET r == load_trie(isfile, trie_stream)
           IN IF r.ok
              THEN /\ trie_root' = r.root
                   /\ v_pc' = "load_words"
                   /\ UNCHANGED v_error
              ELSE /\ v_error' = "load_trie"
                   /\ v_pc' = "exit"
                   /\ UNCHANGED trie_root
    /\ UNCHANGED <<root, trieVars, compileVars, vocab, built, trie_stream, validate_file,
                   words, skipped, next_word, results, count_true, count_false>>

\* Lines 150-158: read the validate file, exit if it is missing or holds no
\* valid word.
LoadWords ==
    /\ v_pc = "load_words"
    /\ \E isfile \in BOOLEAN, lines \in SeqsUpTo(TokenLines, MaxLines) :
           LET r == load_words_to_validate(lines)
           IN IF ~isfile
              THEN /\ v_error' = "validate_file"
                   /\ v_pc' = "exit"
                   /\ UNCHANGED <<validate_file, words, skipped>>
              ELSE /\ validate_file' = lines
                   /\ words' = r.words
                   /\ skipped' = r.skipped
                   /\ IF r.words = <<>>
                      THEN v_error' = "no_words" /\ v_pc' = "exit"
                      ELSE v_pc' = "check" /\ UNCHANGED v_error
    /\ UNCHANGED <<root, trieVars, compileVars, vocab, built, trie_stream, trie_root,
                   next_word, results, count_true, count_false>>

\* Lines 165-173: one turn of the loop over words.
CheckWord ==
    /\ v_pc = "check"
    /\ next_word <= Len(words)
    /\ LET w == words[next_word]
           exists == is_in_trie(trie_root, w)
       IN /\ results' = (w :> exists) @@ results
          /\ count_true' = IF exists THEN count_true + 1 ELSE count_true
          /\ count_false' = IF exists THEN count_false ELSE count_false + 1
    /\ next_word' = next_word + 1
    /\ UNCHANGED <<root, trieVars, compileVars, vocab, built, trie_stream, v_pc, v_error,
                   trie_root, validate_file, words, skipped>>

\* Lines 175-180: the loop is over; print the results and return.
Summarize ==
    /\ v_pc = "check"
    /\ next_word > Len(words)
    /\ v_pc' = "exit"
    /\ UNCHANGED <<root, trieVars, compileVars, vocab, built, trie_stream, v_error,
                   trie_root, validate_file, words, skipped, next_word, results,
                   count_true, count_false>>

ValidateNext == LoadTrie \/ LoadWords \/ CheckWord \/ Summarize

SpecValidate == ValidateInit /\ [][ValidateNext]_vars

\* ================================================================ claims
\* The node a path leads to from the root, 0 when the path leaves the trie.
RECURSIVE NodeFrom(_, _, _)
NodeFrom(t, node, path) ==
    IF path = <<>> THEN node
    ELSE IF Head(path) \notin DOMAIN t.children[node] THEN 0
    ELSE NodeFrom(t, t.children[node][Head(path)], Tail(path))

\* Two tries have the same nodes, each with the same child letters and the
\* same word flag, whatever numbers the nodes carry.
SameTrie(t1, t2) ==
    /\ Len(t1.children) = Len(t2.children)
    /\ \A path \in SeqsUpTo(Letters, MaxLen + 1) :
           LET n1 == NodeFrom(t1, Root, path)
               n2 == NodeFrom(t2, Root, path)
           IN /\ (n1 = 0) = (n2 = 0)
              /\ n1 # 0 =>
                     /\ DOMAIN t1.children[n1] = DOMAIN t2.children[n2]
                     /\ t1.is_word[n1] = t2.is_word[n2]

\* main() has got past the union and the omission.
Aggregated ==
    \/ pc \in {"write", "build", "pickle"}
    \/ pc = "exit" /\ error \in {"", "pickle"}

\* The union of the source sets minus the omit set.
ExpectedVocabulary == (UNION {sets[n] : n \in DOMAIN sets}) \ omit_set

\* C1: whatever the sources and the omit set are, once the (non-empty) union
\* is aggregated the vocabulary is exactly the union of the six source sets
\* minus the omit set, and so are the lines of the word list written and the
\* words the trie built holds.
C1_UnionCorrect ==
    /\ Aggregated => total_union = ExpectedVocabulary
    /\ output_written =>
           {output_file[i] : i \in DOMAIN output_file} = ExpectedVocabulary
    /\ root # NoTrie => TrieWords(root) = ExpectedVocabulary

\* A finished run where two sources share a word, the omit set removes a word
\* of the union and a word is left.
C1_Witness ==
    /\ pc = "exit" /\ error = "" /\ trie_file # <<>>
    /\ sets["dwyl"] \cap sets["scowl"] # {}
    /\ sets["wordnet"] # sets["dwyl"]
    /\ omit_set \cap UnionSources(sets) # {}
    /\ total_union # {}

\* C2: is_in_trie answers True exactly for the words inserted: False for a
\* string never inserted, for one with a character that labels no edge, for
\* the empty string and for a proper prefix of inserted words.
C2_ExactMembership ==
    /\ query # <<>> => query[2] = (query[1] \in inserted)
    /\ \A w \in QueryWords : is_in_trie(root, w) = (w \in inserted)

\* "ab" was inserted, "a" was not, and is_in_trie("a") answered False.
C2_Witness ==
    /\ query = <<(<<"a">>), FALSE>>
    /\ <<"a", "b">> \in inserted
    /\ <<"a">> \notin inserted

\* C3: the trie load_trie returns for the stream the build step wrote has the
\* nodes, child mappings and word flags of the trie that was pickled, and
\* is_in_trie on it answers membership in the vocabulary for every string.
C3_RoundTrip ==
    (v_pc \notin {"idle", "load_trie"} /\ v_error # "load_trie"
        /\ trie_stream = pickle_dump(built)) =>
            /\ SameTrie(trie_root, built)
            /\ \A w \in QueryWords : is_in_trie(trie_root, w) = (w \in vocab)

\* A finished validation of a three-word trie whose loaded nodes are numbered
\* differently from the pickled ones.
C3_Witness ==
    /\ v_pc = "exit" /\ v_error = ""
    /\ trie_stream = pickle_dump(built)
    /\ Cardinality(vocab) = 3
    /\ trie_root # built

\* C4: no trie is built or serialized from an empty vocabulary: an empty
\* union-minus-omit ends the run before the trie is built.
C4_NoTrieFromEmptyVocabulary ==
    (root # NoTrie \/ trie_file # <<>>) => total_union # {}

\* C5: every word of the vocabulary, every line of the word list and every
\* word in the trie is non-empty and made of a-z only.
C5_CanonicalForm ==
    /\ \A w \in total_union : is_pure_alpha(w)
    /\ \A i \in DOMAIN output_file : is_pure_alpha(output_file[i])
    /\ \A w \in TrieWords(root) : is_pure_alpha(w)

\* C6: a trie file that does not start with the PROTO byte or does not end
\* with the STOP byte makes load_trie exit, and no word is looked up.
C6_CorruptArtifactRejected ==
    (v_pc \notin {"idle", "load_trie"}
        /\ (trie_stream = <<>> \/ Head(trie_stream) # PROTO
                \/ trie_stream[Len(trie_stream)] # STOP)) =>
            /\ v_error = "load_trie"
            /\ DOMAIN results = {}

\* C7: a line that, stripped and lower-cased, has a character outside a-z is
\* never kept as a word nor given a result, and every valid line gets one.
C7_InvalidTokensSkipped ==
    \A i \in DOMAIN validate_file :
        LET w == Lower(Strip(validate_file[i]))
        IN /\ (\E k \in DOMAIN w : w[k] \notin Letters) =>
                  /\ w \notin DOMAIN results
                  /\ \A j \in DOMAIN words : words[j] # w
           /\ (is_pure_alpha(w) /\ v_pc = "exit" /\ v_error = "") =>
                  w \in DOMAIN results

\* C8: the run never ends on an exception from the local dictionary loader.
C8_LinuxDictNeverAborts == error # "linux"

\* The sources whose failure is fatal.
FatalSources == {"dwyl", "scowl", "wordnet", "wordfreq", "moby"}

\* main() has got past the six loaders.
PastLoaders ==
    \/ pc \in {"union", "write", "build", "pickle"}
    \/ pc = "exit" /\ error \in {"", "pickle", "empty_union"}

\* C9: a failure of DWYL, SCOWL, WordNet, wordfreq or a supplied Moby file
\* ends the run with no word list and no trie written; a run gets past the
\* loaders only with words from each of them, and with an empty Moby set when
\* no Moby file was given.
C9_FatalSourceAborts ==
    /\ error \in FatalSources =>
           /\ pc = "exit"
           /\ ~output_written
           /\ trie_file = <<>>
           /\ root = NoTrie
    /\ PastLoaders =>
           /\ \A n \in FatalSources \ {"moby"} : sets[n] # {}
           /\ sets["moby"] = {} <=> ~args.moby_file
    /\ ~args.moby_file => error # "moby"

\* A Moby file was supplied and its loader raised.
C9_Witness ==
    /\ args.moby_file
    /\ error = "moby"
    /\ pc = "exit"
    /\ sets["wordfreq"] # {}

\* C10: an insert call with a word that was inserted before leaves every
\* node, child mapping and word flag as it was.
C10_InsertIdempotent ==
    [][(n_inserts' = n_inserts + 1 /\ inserted' = inserted) => root' = root]_vars

\* The same word was inserted twice.
C10_Witness ==
    /\ n_inserts = 2
    /\ Cardinality(inserted) = 1

\* C11: the word list written holds the words of the vocabulary, one per
\* line, each once, in strictly ascending code point order, with no blank
\* line, and the trie built in the run holds the same words.
C11_WordListSorted ==
    output_written =>
        /\ {output_file[i] : i \in DOMAIN output_file} = total_union
        /\ Len(output_file) = Cardinality(total_union)
        /\ \A i \in DOMAIN output_file : Strip(output_file[i]) # <<>>
        /\ \A i, j \in DOMAIN output_file :
               i < j => LexLess(output_file[i], output_file[j])
        /\ root # NoTrie =>
               TrieWords(root) = {output_file[i] : i \in DOMAIN output_file}

\* A finished run that wrote a word list of three lines and built the trie.
C11_Witness ==
    /\ pc = "exit" /\ error = ""
    /\ Len(output_file) = 3
    /\ trie_file # <<>>

\* The positions of the validate file's valid tokens: lines that, stripped
\* and lower-cased, are non-empty and made of a-z only.
ValidTokens ==
    {i \in DOMAIN validate_file : is_pure_alpha(Lower(Strip(validate_file[i])))}

\* C12: when the validator finishes, every valid token has the result
\* "its lower-cased form is in the vocabulary", count_true + count_false is
\* the number of valid tokens and count_true the number of valid tokens that
\* are in the vocabulary.
C12_Tally ==
    (v_pc = "exit" /\ v_error = "") =>
        /\ \A i \in ValidTokens :
               LET w == Lower(Strip(validate_file[i]))
               IN w \in DOMAIN results /\ results[w] = (w \in vocab)
        /\ count_true + count_false = Cardinality(ValidTokens)
        /\ count_true =
               Cardinality({i \in ValidTokens : Lower(Strip(validate_file[i])) \in vocab})

\* C13: a temporary workspace the run made itself is gone whenever the run
\* has ended, however it ended; a workspace given with --tempdir is still
\* there.
C13_TempdirRemoved ==
    /\ (pc = "exit" /\ ~args.tempdir) => ~tempdir_present
    /\ (pc # "tempdir" /\ args.tempdir) => tempdir_present

\* The prefixes of a set of words, the empty prefix included.
Prefixes(W) == UNION {{SubSeq(w, 1, k) : k \in 0..Len(w)} : w \in W} \cup {<<>>}

\* C14: the nodes of the trie are in one-to-one correspondence with the
\* prefixes of the inserted words (one node per prefix, no other node, so an
\* insert adds one node per new letter transition and none otherwise), the
\* flagged nodes are the paths spelling the inserted words, and the root is
\* not flagged.
C14_TrieShape ==
    LET P == Prefixes(inserted)
    IN /\ Len(root.children) = Cardinality(P)
       /\ Len(root.is_word) = Len(root.children)
       /\ \A n \in DOMAIN root.children : DOMAIN root.children[n] \subseteq Letters
       /\ \A p \in P : NodeFrom(root, Root, p) # 0
       /\ \A p, q \in P : p # q => NodeFrom(root, Root, p) # NodeFrom(root, Root, q)
       /\ \A p \in SeqsUpTo(Letters, MaxLen) \ P : NodeFrom(root, Root, p) = 0
       /\ \A p \in P : root.is_word[NodeFrom(root, Root, p)] = (p \in inserted)
       /\ ~root.is_word[Root]

\* "ab" and "aa" were inserted: they share the node of "a", four nodes in all.
C14_Witness ==
    /\ inserted = {<<"a", "b">>, <<"a", "a">>}
    /\ Len(root.children) = 4

\* C15: no step removes a node, an edge or a word flag: a word that
\* is_in_trie finds is found in every later state, a populated trie does not
\* become the empty one again, and an is_in_trie call changes nothing in the
\* trie.  (A step that leaves the trie as it was removes nothing.)
C15_OnlyGrows ==
    [][/\ query' # <<>> => root' = root
       /\ root' # root =>
              /\ Len(root'.children) >= Len(root.children)
              /\ \A n \in DOMAIN root.children :
                     /\ DOMAIN root.children[n] \subseteq DOMAIN root'.children[n]
                     /\ \A ch \in DOMAIN root.children[n] :
                            root'.children[n][ch] = root.children[n][ch]
                     /\ root.is_word[n] => root'.is_word[n]
              /\ \A w \in QueryWords : is_in_trie(root, w) => is_in_trie(root', w)
              /\ root' # TrieNode]_vars

\* "a" is still found after a second insert put "ab" next to it.
C15_Witness ==
    /\ n_inserts = 2
    /\ inserted = {<<"a">>, <<"a", "b">>}
    /\ query = <<(<<"a">>), TRUE>>

====
